---- MODULE Spec2Model ----
(***************************************************************************)
(* A model of the indexing and semantic-search engine of                   *)
(* simple-rag-code-mcp: the chunker (chunkText), the lazily initialised    *)
(* embedding pipeline, the in-memory vector index (indexedChunks), the     *)
(* batched indexing pipeline (CodeIndexer.indexCodebase) and the search    *)
(* (CodeIndexer.search), as they run on the single-threaded event loop.    *)
(***************************************************************************)
EXTENDS Integers, Sequences, FiniteSets, TLC

(***************************************************************************)
(* Bounds of the model.                                                    *)
(***************************************************************************)
\* longest text (in characters) given to the chunker on its own
MaxTextLen == 3
\* largest window size given to the chunker on its own
MaxWindow == 3
\* number of loop iterations of chunkText that are followed one by one
MaxChunks == 4

(***************************************************************************)
(* Program constants.                                                      *)
(***************************************************************************)
DEFAULT_CHUNK_SIZE == 1000
DEFAULT_CHUNK_OVERLAP == 200

NL == "\n"

Min(a, b) == IF a < b THEN a ELSE b
Max(a, b) == IF a > b THEN a ELSE b

(***************************************************************************)
(* Array.prototype.slice(a, b): negative indexes count from the end, and   *)
(* both are clamped to 0..length.  Indexes here are 0-based as in the      *)
(* source; the result is the elements a .. b-1.                            *)
(***************************************************************************)
JsIndex(k, len) == IF k < 0 THEN Max(len + k, 0) ELSE Min(k, len)

JsSlice(s, a, b) ==
    LET from == JsIndex(a, Len(s))
        to   == JsIndex(b, Len(s))
    IN  IF from < to THEN SubSeq(s, from + 1, to) ELSE << >>

(***************************************************************************)
(* A text is a sequence of characters.  text.split('\n') cuts it at every  *)
(* newline, so a text with k newlines has k + 1 lines (the empty text has  *)
(* one, empty, line); lines.join('\n') is the inverse.                     *)
(***************************************************************************)
RECURSIVE Split(_)
Split(text) ==
    IF \A k \in 1..Len(text) : text[k] # NL
    THEN << text >>
    ELSE LET k == CHOOSE j \in 1..Len(text) :
                     text[j] = NL /\ \A h \in 1..(j - 1) : text[h] # NL
         IN  << SubSeq(text, 1, k - 1) >> \o Split(SubSeq(text, k + 1, Len(text)))

RECURSIVE Join(_)
Join(lines) ==
    IF Len(lines) = 0 THEN << >>
    ELSE IF Len(lines) = 1 THEN lines[1]
    ELSE lines[1] \o << NL >> \o Join(Tail(lines))

(***************************************************************************)
(* One iteration of the while loop of chunkText at cursor `start`: the     *)
(* chunk it pushes and the cursor it leaves.                               *)
(***************************************************************************)
ChunkEnd(lines, chunkSize, start) == Min(start + chunkSize, Len(lines))

ChunkAt(lines, chunkSize, start) ==
    [ text  |-> Join(JsSlice(lines, start, ChunkEnd(lines, chunkSize, start))),
      start |-> start + 1,
      end   |-> ChunkEnd(lines, chunkSize, start) ]

NextStart(lines, chunkSize, overlap, start) ==
    ChunkEnd(lines, chunkSize, start) - overlap

LoopCondition(lines, start) == start < Len(lines)

(***************************************************************************)
(* chunkText as one synchronous call.  The loop has no state but the       *)
(* cursor, so it returns within Len(lines) iterations or never: `returns`  *)
(* is FALSE when the loop is still running after that many iterations.     *)
(***************************************************************************)
RECURSIVE ChunkLoop(_, _, _, _, _, _)
ChunkLoop(lines, chunkSize, overlap, start, chunks, fuel) ==
    IF ~LoopCondition(lines, start)
    THEN [ returns |-> TRUE, chunks |-> chunks ]
    ELSE IF fuel = 0
    THEN [ returns |-> FALSE, chunks |-> chunks ]
    ELSE ChunkLoop(lines, chunkSize, overlap,
                   NextStart(lines, chunkSize, overlap, start),
                   Append(chunks, ChunkAt(lines, chunkSize, start)),
                   fuel - 1)

ChunkText(text, chunkSize, overlap) ==
    ChunkLoop(Split(text), chunkSize, overlap, 0, << >>, Len(Split(text)) + 1)

(***************************************************************************)
(* ConfigManager.getChunkSize / getChunkOverlap: a configured value that   *)
(* is falsy (0, or absent) is replaced by the default.                     *)
(***************************************************************************)
GetChunkSize(configured) == IF configured = 0 THEN DEFAULT_CHUNK_SIZE ELSE configured

GetChunkOverlap(configured) == IF configured = 0 THEN DEFAULT_CHUNK_OVERLAP ELSE configured

(***************************************************************************)
(* The world the engine runs in: the collection names callers use, the     *)
(* files the directory walk finds for each, and what stat and read do.     *)
(***************************************************************************)
MAX_FILE_SIZE == 10 * 1024 * 1024
DEFAULT_BATCH_SIZE == 50

\* "a" and "b" are registered codebases, "u" is a name nobody registered
RegisteredNames == { "a", "b" }
CallNames == { "a", "b", "u" }

\* kind: "ok", or "missing" (deleted after the walk: statSync and
\* readFileSync throw); size in bytes; content as read by readFileSync
FileTable ==
    [ f1 |-> [ kind |-> "ok",      size |-> 5,                 content |-> << "x", NL, "x", NL, "x" >> ],
      f2 |-> [ kind |-> "ok",      size |-> 1,                 content |-> << "x" >> ],
      f3 |-> [ kind |-> "ok",      size |-> MAX_FILE_SIZE + 1, content |-> << "x", "x" >> ],
      f4 |-> [ kind |-> "missing", size |-> 0,                 content |-> << >> ],
      f5 |-> [ kind |-> "ok",      size |-> MAX_FILE_SIZE,     content |-> << "x", NL >> ] ]

\* walkDirectory(codebasePath): the eligible files in discovery order
WalkDirectory(name) ==
    IF name = "a" THEN << "f1", "f3", "f4", "f2" >>
    ELSE IF name = "b" THEN << "f5" >>
    ELSE << >>

StatThrows(file) == FileTable[file].kind = "missing"
ReadThrows(file) == FileTable[file].kind = "missing"
StatSize(file) == FileTable[file].size
ReadFile(file) == FileTable[file].content

\* the configured chunkSize and chunkOverlap (0: not configured)
ConfiguredSizes == { 1, 2 }
ConfiguredOverlaps == { -1, 0, 1, 2 }

(***************************************************************************)
(* An option that may be omitted is the empty sequence when omitted and    *)
(* << v >> when given; destructuring with a default resolves it.           *)
(***************************************************************************)
WithDefault(opt, default) == IF opt = << >> THEN default ELSE opt[1]

MaxFilesChoices == { << >>, << 0 >>, << 2 >>, << 5 >> }
BatchSizeChoices == { << >>, << 0 >>, << 1 >>, << 2 >> }
SkipLargeChoices == { << >>, << FALSE >> }

\* (a variant of TruncateFiles that keeps every file)
TruncateFilesNone(files, maxFiles) == files

\* files.slice(0, maxFiles), maxFiles = Infinity when omitted
TruncateFiles(files, maxFiles) ==
    IF maxFiles = << >> THEN files ELSE JsSlice(files, 0, maxFiles[1])

(***************************************************************************)
(* The embedding of a text: the model is deterministic, so the vector is a *)
(* function of the text.                                                   *)
(***************************************************************************)
Embed(text) == << Len(text), 1 >>

Queries == { << "x" >> }

(***************************************************************************)
(* cosineSimilarity.  The score dot / (sqrt(normA) * sqrt(normB)) is kept  *)
(* as the pair (num, den2) standing for num / sqrt(den2), and 0 is (0, 1); *)
(* two scores are compared exactly by cross-multiplying the squares.       *)
(***************************************************************************)
RECURSIVE SumTo(_, _)
SumTo(f, n) == IF n = 0 THEN 0 ELSE f[n] + SumTo(f, n - 1)

Dot(u, v) == SumTo([k \in 1..Len(u) |-> u[k] * v[k]], Len(u))

\* (a variant of CosineSimilarity without the test of the denominator: the
\* quotient 0 / 0 is left as it is, den2 = 0 standing for NaN)
CosineSimilarityUnguarded(vecA, vecB) ==
    IF Len(vecA) # Len(vecB) THEN [ num |-> 0, den2 |-> 1 ]
    ELSE [ num |-> Dot(vecA, vecB), den2 |-> Dot(vecA, vecA) * Dot(vecB, vecB) ]

CosineSimilarity(vecA, vecB) ==
    IF Len(vecA) # Len(vecB) THEN [ num |-> 0, den2 |-> 1 ]
    ELSE IF Dot(vecA, vecA) * Dot(vecB, vecB) = 0 THEN [ num |-> 0, den2 |-> 1 ]
    ELSE [ num |-> Dot(vecA, vecB), den2 |-> Dot(vecA, vecA) * Dot(vecB, vecB) ]

Sign(n) == IF n > 0 THEN 1 ELSE IF n < 0 THEN -1 ELSE 0

\* s.score < t.score
ScoreLess(s, t) ==
    Sign(s.num) * s.num * s.num * t.den2 < Sign(t.num) * t.num * t.num * s.den2

(***************************************************************************)
(* results.sort((a, b) => b.score - a.score): a stable sort by descending  *)
(* score, as an insertion that puts each element after the elements whose  *)
(* score is not lower than its own.                                        *)
(***************************************************************************)
\* (a variant of InsertByScore that puts an element before the elements
\* with the same score: a sort that is not stable)
RECURSIVE InsertByScoreUnstable(_, _)
InsertByScoreUnstable(sorted, r) ==
    IF sorted = << >> THEN << r >>
    ELSE IF ~ScoreLess(r.score, Head(sorted).score)
    THEN << r >> \o sorted
    ELSE << Head(sorted) >> \o InsertByScoreUnstable(Tail(sorted), r)

RECURSIVE InsertByScore(_, _)
InsertByScore(sorted, r) ==
    IF sorted = << >> THEN << r >>
    ELSE IF ScoreLess(Head(sorted).score, r.score)
    THEN << r >> \o sorted
    ELSE << Head(sorted) >> \o InsertByScore(Tail(sorted), r)

RECURSIVE SortByScore(_)
SortByScore(results) ==
    IF results = << >> THEN << >>
    ELSE InsertByScore(SortByScore(SubSeq(results, 1, Len(results) - 1)),
                       results[Len(results)])

(***************************************************************************)
(* The chunker followed one loop iteration at a time.                      *)
(***************************************************************************)
VARIABLES ckPc, ckText, ckLines, ckSize, ckOverlap, ckStart, ckChunks

ckVars == << ckPc, ckText, ckLines, ckSize, ckOverlap, ckStart, ckChunks >>

(***************************************************************************)
(* The state of the engine.                                                *)
(***************************************************************************)
VARIABLES
    codebases,          \* CodebaseManager.codebases: the registered names
    chunkSize,          \* config.chunkSize as configured
    chunkOverlap,       \* config.chunkOverlap as configured
    initialized,        \* CodeIndexer.initialized
    embeddingPipeline,  \* CodeIndexer.embeddingPipeline is set
    indexKeys,          \* the keys of CodeIndexer.indexedChunks, in insertion order
    indexedChunks,      \* the value CodeIndexer.indexedChunks holds for each key
    calls,              \* the indexCodebase calls, one per caller
    searches,           \* the search calls, one per caller
    pipelineStarts      \* how many times pipeline(...) has been called

plVars == << codebases, chunkSize, chunkOverlap, initialized, embeddingPipeline,
             indexKeys, indexedChunks, calls, searches, pipelineStarts >>

(***************************************************************************)
(* The calls of the tool handler and of the functions followed on their    *)
(* own.                                                                    *)
(***************************************************************************)
VARIABLES
    request,    \* the CallToolRequest the server's handler is working on
    cosine,     \* a call of cosineSimilarity: its vectors and its result
    resolved,   \* a call of resolveFilePath: its arguments and its result
    settleOrder \* the files in the order their embedding tasks completed

auxVars == << cosine, resolved, settleOrder >>

fnVars == << request, auxVars >>

vars == << ckVars, plVars, fnVars >>

NoRequest == [ pc |-> "idle" ]
NoCosine == [ pc |-> "idle" ]
NoResolve == [ pc |-> "idle" ]

FnIdle ==
    /\ request = NoRequest
    /\ cosine = NoCosine
    /\ resolved = NoResolve
    /\ settleOrder = << >>

\* "api" calls indexCodebase with options of its choice, "tool" is the
\* index_codebase tool handler, which passes no options
IndexCallers == { "api", "tool" }
SearchCallers == { "s1" }

NoReport == [ indexed |-> 0, totalFiles |-> 0, skipped |-> 0, chunks |-> 0 ]

IdleCall ==
    [ pc |-> "idle", name |-> "", maxFiles |-> << >>, batchSize |-> 0,
      skipLargeFiles |-> TRUE, files |-> << >>, filesToIndex |-> << >>,
      i |-> 0, tasks |-> << >>, allChunks |-> << >>, indexedCount |-> 0,
      skippedCount |-> 0, reads |-> << >>, stuck |-> FALSE,
      report |-> NoReport, error |-> "", cleared |-> FALSE ]

IdleSearch ==
    [ pc |-> "idle", query |-> << >>, names |-> << >>, limit |-> 0,
      scored |-> << >>, result |-> << >>, error |-> "", reindexed |-> { } ]

\* a file of filesToIndex that no batch has reached yet
NewTask ==
    [ st |-> "new", todo |-> << >>, done |-> << >>, counted |-> "",
      tooLarge |-> FALSE, ioFailed |-> FALSE, embedFailed |-> FALSE ]

EngineInit ==
    /\ codebases = RegisteredNames
    /\ initialized = FALSE
    /\ embeddingPipeline = FALSE
    /\ indexKeys = << >>
    /\ indexedChunks = [ n \in CallNames |-> << >> ]
    /\ calls = [ p \in IndexCallers |-> IdleCall ]
    /\ searches = [ p \in SearchCallers |-> IdleSearch ]
    /\ pipelineStarts = 0

ChunkerIdle ==
    /\ ckPc = "idle"
    /\ ckText = << >>
    /\ ckSize = 0
    /\ ckOverlap = 0
    /\ ckLines = << >>
    /\ ckStart = 0
    /\ ckChunks = << >>

\* A synchronous loop that never ends (chunkText with a cursor that does not
\* advance, a batch loop that only ever awaits settled promises) keeps the
\* event loop: nothing else runs any more.
Hung == \E p \in IndexCallers : calls[p].stuck

(***************************************************************************)
(* CodebaseManager.getCodebasePath                                         *)
(***************************************************************************)
\* (a variant of HasCodebase that finds a path for every name)
HasCodebaseAny(name) == TRUE

HasCodebase(name) == name \in codebases

(***************************************************************************)
(* Map.prototype.set / has on indexedChunks                                *)
(***************************************************************************)
SeqToSet(s) == { s[k] : k \in 1..Len(s) }

IndexHas(name) == name \in SeqToSet(indexKeys)

KeysAfterSet(keys, name) ==
    IF name \in SeqToSet(keys) THEN keys ELSE Append(keys, name)

\* (a variant of StoreChunks that keeps the entries a collection holds
\* already: the first writer wins)
StoreChunksIfAbsent(stored, name, allChunks) ==
    IF stored[name] = << >> THEN [ stored EXCEPT ![name] = allChunks ]
    ELSE stored

\* (a variant of StoreChunks that appends to what the collection held)
StoreChunksMerged(stored, name, allChunks) ==
    [ stored EXCEPT ![name] = @ \o allChunks ]

\* this.indexedChunks.set(codebaseName, allChunks)
StoreChunks(stored, name, allChunks) == [ stored EXCEPT ![name] = allChunks ]

(***************************************************************************)
(* indexFile, up to its first await: chunk the content; the embedding of   *)
(* the first chunk is then in flight.  `run` names the call that made the  *)
(* entry (entries are fresh objects of one run).                           *)
(***************************************************************************)
MakeEntry(run, name, file, chunk) ==
    [ content |-> chunk.text, filePath |-> file, codebase |-> name,
      startLine |-> chunk.start, endLine |-> chunk.end,
      embedding |-> Embed(chunk.text), run |-> run ]

\* (a variant of CountSkipped that forgets the increment)
CountSkippedForgotten(c) == c

\* skippedCount++ and indexedCount++
CountSkipped(c) == [ c EXCEPT !.skippedCount = @ + 1 ]

CountIndexed(c) == [ c EXCEPT !.indexedCount = @ + 1 ]

\* the callback of the file at position pos returns [] without indexing it:
\* the file is too large ("large"), or statSync, readFileSync or indexFile
\* threw and the catch block took over ("io", "embed").  `counted` and the
\* flags record, per file, what happened to it.
SettleSkipped(c, pos, why) ==
    [ CountSkipped(c) EXCEPT
        !.tasks[pos] = [ @ EXCEPT !.st = "settled", !.counted = "skipped",
                                  !.tooLarge = (why = "large"),
                                  !.ioFailed = (why = "io") ] ]

\* indexFile returned its chunks: indexedCount++; return chunks
SettleIndexed(c, pos) ==
    [ CountIndexed(c) EXCEPT
        !.tasks[pos] = [ @ EXCEPT !.st = "settled", !.counted = "indexed" ] ]

\* (a variant of TooLarge that also rejects a file of exactly the ceiling)
TooLargeOrAtCeiling(size) == size >= MAX_FILE_SIZE

\* stats.size > MAX_FILE_SIZE
TooLarge(size) == size > MAX_FILE_SIZE

\* the body of the batch.map callback for the file at position pos, up to
\* its first await
StartFile(c, pos) ==
    LET file == c.filesToIndex[pos]
        chunked == ChunkText(ReadFile(file), GetChunkSize(chunkSize),
                             GetChunkOverlap(chunkOverlap))
        read == [ c EXCEPT !.reads = Append(@, file) ]
    IN  IF c.skipLargeFiles /\ StatThrows(file) THEN SettleSkipped(c, pos, "io")
        ELSE IF c.skipLargeFiles /\ TooLarge(StatSize(file))
        THEN SettleSkipped(c, pos, "large")
        ELSE IF ReadThrows(file) THEN SettleSkipped(c, pos, "io")
        ELSE IF ~chunked.returns
        THEN [ read EXCEPT !.stuck = TRUE, !.tasks[pos].st = "running" ]
        ELSE IF chunked.chunks = << >> THEN SettleIndexed(read, pos)
        ELSE [ read EXCEPT !.tasks[pos].st = "running",
                           !.tasks[pos].todo = chunked.chunks ]

\* the positions (1-based) of filesToIndex.slice(i, i + batchSize)
BatchPositions(c) ==
    JsSlice([ k \in 1..Len(c.filesToIndex) |-> k ], c.i, c.i + c.batchSize)

\* batch.map(async (filePath) => ...): the callbacks run one after the
\* other, each up to its first await
RECURSIVE RunBatch(_, _, _)
RunBatch(c, positions, k) ==
    IF k > Len(positions) \/ c.stuck THEN c
    ELSE RunBatch(StartFile(c, positions[k]), positions, k + 1)

\* (a variant of BatchSettled that resolves with the first settled task)
BatchAnySettled(c) ==
    \E k \in SeqToSet(BatchPositions(c)) : c.tasks[k].st = "settled"

\* Promise.all(batchPromises) has resolved
BatchSettled(c) ==
    \A k \in SeqToSet(BatchPositions(c)) : c.tasks[k].st = "settled"

\* (a variant of ConcatResults that puts the results of the later files
\* first)
RECURSIVE ConcatResultsReversed(_, _, _)
ConcatResultsReversed(tasks, positions, k) ==
    IF k > Len(positions) THEN << >>
    ELSE ConcatResultsReversed(tasks, positions, k + 1) \o tasks[positions[k]].done

RECURSIVE ConcatResults(_, _, _)
ConcatResults(tasks, positions, k) ==
    IF k > Len(positions) THEN << >>
    ELSE tasks[positions[k]].done \o ConcatResults(tasks, positions, k + 1)

\* for (const chunks of batchResults) allChunks.push(...chunks)
CollectBatch(c) ==
    [ c EXCEPT !.allChunks = @ \o ConcatResults(c.tasks, BatchPositions(c), 1) ]

\* the return value of indexCodebase
MakeReport(c) ==
    [ indexed |-> c.indexedCount, totalFiles |-> Len(c.files),
      skipped |-> c.skippedCount, chunks |-> Len(c.allChunks) ]

\* The for loop at its condition: either the next batch is started (and the
\* call awaits it), or the loop is over and the call stores and returns.
\* A batch without files resolves at once, and so does every batch after it
\* (batchSize <= 0): the loop then spins without ever yielding.
LoopHead(c) ==
    IF c.i < Len(c.filesToIndex)
    THEN IF BatchPositions(c) = << >>
         THEN [ c EXCEPT !.pc = "batch", !.stuck = TRUE ]
         ELSE [ RunBatch(c, BatchPositions(c), 1) EXCEPT !.pc = "batch" ]
    ELSE [ c EXCEPT !.pc = "returned", !.report = MakeReport(c) ]

\* (a variant of Published that stores the chunks gathered so far after
\* every batch)
PublishedEachBatch(stored, c) ==
    IF c.pc \in { "batch", "returned" }
    THEN StoreChunks(stored, c.name, c.allChunks) ELSE stored

\* what indexedChunks holds once the loop head has run: the collection is
\* replaced only when the loop is over
Published(stored, c) ==
    IF c.pc = "returned" THEN StoreChunks(stored, c.name, c.allChunks) ELSE stored

\* Bookkeeping for the searches in progress: the names that were indexed
\* already and have been replaced since the search was called.
NoteReindex(ss, c) ==
    [ s \in DOMAIN ss |->
        IF c.pc = "returned" /\ c.name \in SeqToSet(indexKeys)
              /\ ss[s].pc \in { "init", "ready", "embed" }
        THEN [ ss[s] EXCEPT !.reindexed = @ \cup { c.name } ]
        ELSE ss[s] ]

PublishedKeys(keys, c) ==
    IF c.pc = "returned" THEN KeysAfterSet(keys, c.name) ELSE keys

(***************************************************************************)
(* CodeIndexer.initialize, up to its await: nothing to do when initialized,*)
(* else pipeline(...) is called and awaited.                               *)
(***************************************************************************)
NeedsPipeline == ~initialized

(***************************************************************************)
(* The indexCodebase call of caller p.                                     *)
(***************************************************************************)
\* tools/search indexCodebase: the name is checked, then
\* codeIndexer.indexCodebase runs up to await this.initialize()
IndexStart(p, name, maxFiles, batchSize, skipLargeFiles) ==
    /\ ~Hung
    /\ calls[p].pc = "idle"
    /\ IF ~HasCodebase(name)
       THEN /\ calls' = [ calls EXCEPT ![p].pc = "thrown", ![p].name = name,
                                       ![p].error = "CollectionNotFound" ]
            /\ UNCHANGED pipelineStarts
       ELSE /\ calls' = [ calls EXCEPT
                  ![p].pc = IF NeedsPipeline THEN "init" ELSE "ready",
                  ![p].name = name,
                  ![p].maxFiles = maxFiles,
                  ![p].batchSize = WithDefault(batchSize, DEFAULT_BATCH_SIZE),
                  ![p].skipLargeFiles = WithDefault(skipLargeFiles, TRUE) ]
            /\ pipelineStarts' = IF NeedsPipeline THEN pipelineStarts + 1
                                 ELSE pipelineStarts
    /\ UNCHANGED << ckVars, auxVars, codebases, chunkSize, chunkOverlap,
                    initialized, embeddingPipeline, indexKeys, indexedChunks,
                    searches >>

\* the call made by a caller other than the tool handler
IndexCall(p, name, maxFiles, batchSize, skipLargeFiles) ==
    /\ IndexStart(p, name, maxFiles, batchSize, skipLargeFiles)
    /\ UNCHANGED request

\* (a variant of IndexInitSettle in which the failure is logged and the
\* call goes on without a pipeline)
IndexInitSettleAbsorbed(p, ok) ==
    /\ ~Hung
    /\ calls[p].pc = "init"
    /\ IF ok
       THEN /\ embeddingPipeline' = TRUE
            /\ initialized' = TRUE
       ELSE UNCHANGED << embeddingPipeline, initialized >>
    /\ calls' = [ calls EXCEPT ![p].pc = "ready" ]
    /\ UNCHANGED << ckVars, fnVars, codebases, chunkSize, chunkOverlap, indexKeys,
                    indexedChunks, searches, pipelineStarts >>

\* the pipeline(...) promise of caller p settles: this.embeddingPipeline and
\* this.initialized are set, or initialize rethrows the error
IndexInitSettle(p, ok) ==
    /\ ~Hung
    /\ calls[p].pc = "init"
    /\ IF ok
       THEN /\ embeddingPipeline' = TRUE
            /\ initialized' = TRUE
            /\ calls' = [ calls EXCEPT ![p].pc = "ready" ]
       ELSE /\ calls' = [ calls EXCEPT ![p].pc = "thrown",
                                       ![p].error = "EmbeddingUnavailable" ]
            /\ UNCHANGED << embeddingPipeline, initialized >>
    /\ UNCHANGED << ckVars, fnVars, codebases, chunkSize, chunkOverlap, indexKeys,
                    indexedChunks, searches, pipelineStarts >>

\* after await this.initialize(): the options are resolved, the path is
\* looked up, the directory is walked and the batch loop is entered
IndexProceed(p) ==
    /\ ~Hung
    /\ calls[p].pc = "ready"
    /\ IF ~HasCodebase(calls[p].name)
       THEN /\ calls' = [ calls EXCEPT ![p].pc = "thrown",
                                       ![p].error = "CollectionNotFound" ]
            /\ UNCHANGED << indexKeys, indexedChunks >>
       ELSE LET files == WalkDirectory(calls[p].name)
                toIndex == TruncateFiles(files, calls[p].maxFiles)
                c == LoopHead([ calls[p] EXCEPT
                         !.files = files,
                         !.filesToIndex = toIndex,
                         !.tasks = [ k \in 1..Len(toIndex) |-> NewTask ],
                         !.i = 0 ])
            IN  /\ calls' = [ calls EXCEPT ![p] = c ]
                /\ indexedChunks' = Published(indexedChunks, c)
                /\ indexKeys' = PublishedKeys(indexKeys, c)
    /\ searches' = NoteReindex(searches, calls'[p])
    /\ UNCHANGED << ckVars, fnVars, codebases, chunkSize, chunkOverlap, initialized,
                    embeddingPipeline, pipelineStarts >>

\* (a variant of EmbedOutcome without the try/catch: the error leaves
\* indexFile)
EmbedOutcomeRethrown(t, entry, ok) ==
    IF ok THEN [ task |-> [ t EXCEPT !.done = Append(@, entry), !.todo = Tail(@) ],
                 threw |-> FALSE ]
    ELSE [ task |-> [ t EXCEPT !.embedFailed = TRUE, !.todo = << >> ],
           threw |-> TRUE ]

\* The try/catch around generateEmbedding in indexFile: the entry is pushed,
\* or the failure is logged and the loop goes on with the next chunk.
\* `threw` says whether the error leaves indexFile.
EmbedOutcome(t, entry, ok) ==
    IF ok THEN [ task |-> [ t EXCEPT !.done = Append(@, entry), !.todo = Tail(@) ],
                 threw |-> FALSE ]
    ELSE [ task |-> [ t EXCEPT !.embedFailed = TRUE, !.todo = Tail(@) ],
           threw |-> FALSE ]

\* indexFile's await this.generateEmbedding(chunk.text) for the file at
\* position pos settles.  After the last chunk indexFile returns and the
\* callback counts the file as indexed; an error that left indexFile would
\* be caught by the callback and the file counted as skipped.
EmbedStep(p, pos, ok) ==
    /\ ~Hung
    /\ calls[p].pc = "batch"
    /\ pos \in 1..Len(calls[p].tasks)
    /\ calls[p].tasks[pos].st = "running"
    /\ LET c == calls[p]
           t == c.tasks[pos]
           entry == MakeEntry(p, c.name, c.filesToIndex[pos], Head(t.todo))
           out == EmbedOutcome(t, entry, ok)
           c1 == [ c EXCEPT !.tasks[pos] = out.task ]
       IN  calls' = [ calls EXCEPT ![p] =
                        IF out.threw THEN SettleSkipped(c1, pos, "embed")
                        ELSE IF out.task.todo = << >> THEN SettleIndexed(c1, pos)
                        ELSE c1 ]
    /\ UNCHANGED << ckVars, request, cosine, resolved, codebases, chunkSize,
                    chunkOverlap, initialized, embeddingPipeline, indexKeys,
                    indexedChunks, searches, pipelineStarts >>

EmbedSettle(p, pos, ok) ==
    /\ EmbedStep(p, pos, ok)
    /\ UNCHANGED settleOrder

\* the same step, with the order in which the file tasks complete kept
EmbedSettleInOrder(p, pos, ok) ==
    /\ EmbedStep(p, pos, ok)
    /\ settleOrder' = IF calls'[p].tasks[pos].st = "settled"
                      THEN Append(settleOrder, calls[p].filesToIndex[pos])
                      ELSE settleOrder

\* await Promise.all(batchPromises) resumes: the results are appended in
\* batch order, i += batchSize, and the loop goes on to its condition
BatchJoin(p) ==
    /\ ~Hung
    /\ calls[p].pc = "batch"
    /\ BatchSettled(calls[p])
    /\ LET c == LoopHead([ CollectBatch(calls[p]) EXCEPT
                             !.i = @ + calls[p].batchSize ])
       IN  /\ calls' = [ calls EXCEPT ![p] = c ]
           /\ indexedChunks' = Published(indexedChunks, c)
           /\ indexKeys' = PublishedKeys(indexKeys, c)
           /\ searches' = NoteReindex(searches, c)
    /\ UNCHANGED << ckVars, fnVars, codebases, chunkSize, chunkOverlap, initialized,
                    embeddingPipeline, pipelineStarts >>

(***************************************************************************)
(* The search call of caller p.                                            *)
(***************************************************************************)
\* codebaseNames given: names.filter(has), else the keys of the map
CodebasesToSearch(names) ==
    IF names = << >> THEN indexKeys
    ELSE SelectSeq(names[1], LAMBDA n : IndexHas(n))

\* the candidates of one collection, scored in entry order
ScoreChunks(queryEmbedding, chunks) ==
    [ k \in 1..Len(chunks) |->
        [ chunk |-> chunks[k],
          score |-> CosineSimilarity(queryEmbedding, chunks[k].embedding) ] ]

RECURSIVE ScoreAll(_, _, _)
ScoreAll(queryEmbedding, names, k) ==
    IF k > Len(names) THEN << >>
    ELSE ScoreChunks(queryEmbedding, indexedChunks[names[k]])
             \o ScoreAll(queryEmbedding, names, k + 1)

\* (a variant of AllRegistered that looks at the first name only)
AllRegisteredFirstOnly(names) ==
    names = << >> \/ names[1] = << >> \/ HasCodebase(names[1][1])

\* semanticSearch's validation: when names are given, each is registered
AllRegistered(names) ==
    names = << >> \/ \A k \in 1..Len(names[1]) : HasCodebase(names[1][k])

\* tools/search semanticSearch: every given name is checked, then
\* codeIndexer.search runs up to await this.initialize()
SearchCall(p, query, names, limit) ==
    /\ ~Hung
    /\ searches[p].pc = "idle"
    /\ IF ~AllRegistered(names)
       THEN /\ searches' = [ searches EXCEPT
                  ![p].pc = "thrown", ![p].error = "CollectionNotFound",
                  ![p].query = query, ![p].names = names, ![p].limit = limit ]
            /\ UNCHANGED pipelineStarts
       ELSE /\ searches' = [ searches EXCEPT
                  ![p].pc = IF NeedsPipeline THEN "init" ELSE "ready",
                  ![p].query = query, ![p].names = names, ![p].limit = limit ]
            /\ pipelineStarts' = IF NeedsPipeline THEN pipelineStarts + 1
                                 ELSE pipelineStarts
    /\ UNCHANGED << ckVars, fnVars, codebases, chunkSize, chunkOverlap, initialized,
                    embeddingPipeline, indexKeys, indexedChunks, calls >>

SearchInitSettle(p, ok) ==
    /\ ~Hung
    /\ searches[p].pc = "init"
    /\ IF ok
       THEN /\ embeddingPipeline' = TRUE
            /\ initialized' = TRUE
            /\ searches' = [ searches EXCEPT ![p].pc = "ready" ]
       ELSE /\ searches' = [ searches EXCEPT ![p].pc = "thrown",
                                             ![p].error = "EmbeddingUnavailable" ]
            /\ UNCHANGED << embeddingPipeline, initialized >>
    /\ UNCHANGED << ckVars, fnVars, codebases, chunkSize, chunkOverlap, indexKeys,
                    indexedChunks, calls, pipelineStarts >>

\* after await this.initialize(): generateEmbedding(query) calls the
\* embedding pipeline and awaits it
SearchEmbed(p) ==
    /\ ~Hung
    /\ searches[p].pc = "ready"
    /\ searches' = [ searches EXCEPT ![p].pc = "embed" ]
    /\ UNCHANGED << ckVars, fnVars, codebases, chunkSize, chunkOverlap, initialized,
                    embeddingPipeline, indexKeys, indexedChunks, calls,
                    pipelineStarts >>

\* (a variant of StoredAfterScoring in which the scoring sorts the stored
\* arrays of the selected collections themselves)
StoredSortedInPlace(stored, selected, queryEmbedding) ==
    [ n \in DOMAIN stored |->
        IF n \in SeqToSet(selected)
        THEN LET sorted == SortByScore(ScoreChunks(queryEmbedding, stored[n]))
             IN  [ k \in 1..Len(sorted) |-> sorted[k].chunk ]
        ELSE stored[n] ]

\* what indexedChunks holds after the scoring loop and the sort: search
\* only calls has, keys and get on the map, pushes copies of the chunks to
\* its own results array and sorts that array
StoredAfterScoring(stored, selected, queryEmbedding) == stored

\* the query embedding settles: the call throws, or every chunk of the
\* selected collections is scored, the results are sorted and cut to limit.
\* `scored` keeps what was read from the map: each collection with its
\* entries.
SearchSettle(p, ok) ==
    /\ ~Hung
    /\ searches[p].pc = "embed"
    /\ IF ok
       THEN LET selected == CodebasesToSearch(searches[p].names)
                results == ScoreAll(Embed(searches[p].query), selected, 1)
            IN  /\ searches' = [ searches EXCEPT
                    ![p].pc = "returned",
                    ![p].scored = [ k \in 1..Len(selected) |->
                                      [ name |-> selected[k],
                                        entries |-> indexedChunks[selected[k]] ] ],
                    ![p].result = JsSlice(SortByScore(results), 0, searches[p].limit) ]
                /\ indexedChunks' = StoredAfterScoring(indexedChunks, selected,
                                                       Embed(searches[p].query))
       ELSE /\ searches' = [ searches EXCEPT ![p].pc = "thrown",
                                             ![p].error = "EmbedError" ]
            /\ UNCHANGED indexedChunks
    /\ UNCHANGED << ckVars, fnVars, codebases, chunkSize, chunkOverlap, initialized,
                    embeddingPipeline, indexKeys, calls, pipelineStarts >>

NamesChoices == { << >>, << << "a" >> >>, << << "b", "a" >> >>, << << "u" >> >> }
LimitChoices == { 1, 10 }

\* The callers active together: the tool handler, an API caller that picks
\* the batch size, and a searcher.
ConcurrentBatchChoices == { << >>, << 2 >> }

Next ==
    \/ \E name \in CallNames, bs \in ConcurrentBatchChoices :
          IndexCall("api", name, << >>, bs, << >>)
    \/ \E name \in CallNames : IndexCall("tool", name, << >>, << >>, << >>)
    \/ \E p \in IndexCallers, ok \in BOOLEAN : IndexInitSettle(p, ok)
    \/ \E p \in IndexCallers : IndexProceed(p)
    \/ \E p \in IndexCallers : \E pos \in 1..Len(calls[p].tasks), ok \in BOOLEAN :
          EmbedSettle(p, pos, ok)
    \/ \E p \in IndexCallers : BatchJoin(p)
    \/ \E p \in SearchCallers, q \in Queries, names \in NamesChoices,
          limit \in LimitChoices : SearchCall(p, q, names, limit)
    \/ \E p \in SearchCallers, ok \in BOOLEAN : SearchInitSettle(p, ok)
    \/ \E p \in SearchCallers : SearchEmbed(p)
    \/ \E p \in SearchCallers, ok \in BOOLEAN : SearchSettle(p, ok)

Init ==
    /\ EngineInit
    /\ FnIdle
    /\ chunkSize \in ConfiguredSizes
    /\ chunkOverlap \in ConfiguredOverlaps
    /\ ChunkerIdle

Spec == Init /\ [][Next]_vars

\* One indexCodebase call on its own, with every choice of its options.
IndexNext ==
    \/ \E name \in CallNames, mf \in MaxFilesChoices, bs \in BatchSizeChoices,
          sl \in SkipLargeChoices : IndexCall("api", name, mf, bs, sl)
    \/ \E ok \in BOOLEAN : IndexInitSettle("api", ok)
    \/ IndexProceed("api")
    \/ \E pos \in 1..Len(calls["api"].tasks), ok \in BOOLEAN :
          EmbedSettle("api", pos, ok)
    \/ BatchJoin("api")

IndexSpec == Init /\ [][IndexNext]_vars


(***************************************************************************)
(* Properties of the indexing pipeline and of the search.                  *)
(***************************************************************************)
Returned(p) == calls[p].pc = "returned"

TaskPositions(p) == 1..Len(calls[p].tasks)

CountedAs(p, what) == { k \in TaskPositions(p) : calls[p].tasks[k].counted = what }

\* the number of files files.slice(0, maxFiles) keeps out of n
SelectedCount(n, maxFiles) ==
    IF maxFiles = << >> THEN n
    ELSE IF maxFiles[1] >= 0 THEN Min(maxFiles[1], n)
    ELSE Max(n + maxFiles[1], 0)

\* C1 as stated: every report satisfies
\* indexedFileCount + skippedFileCount = totalFileCount.
C1_SkipAccounting ==
    \A p \in IndexCallers :
        Returned(p) =>
            calls[p].report.indexed + calls[p].report.skipped
                = calls[p].report.totalFiles

\* C1 as amended: every report counts each selected file once, as indexed or
\* as skipped: indexedFileCount + skippedFileCount is the number of files
\* files.slice(0, maxFiles) keeps, while totalFileCount is the number of
\* files found; the two are equal when maxFiles is omitted.
C1_SkipAccountingOfSelected ==
    \A p \in IndexCallers :
        Returned(p) =>
            LET r == calls[p].report
                n == Len(WalkDirectory(calls[p].name))
            IN  /\ r.totalFiles = n
                /\ r.indexed + r.skipped = SelectedCount(n, calls[p].maxFiles)
                /\ r.indexed + r.skipped <= r.totalFiles
                /\ calls[p].maxFiles = << >> => r.indexed + r.skipped = r.totalFiles

\* a report of a truncated run: 2 of 4 files selected, one indexed, one
\* skipped
C1_Witness ==
    /\ Returned("api")
    /\ calls["api"].maxFiles = << 2 >>
    /\ calls["api"].report.totalFiles = 4
    /\ calls["api"].report.indexed = 1
    /\ calls["api"].report.skipped = 1

\* C2: a search that returns has read, for every collection it scored, the
\* complete entry sequence of one finished index run of that collection:
\* the one stored before the re-index or the one stored by it.
C2_SearchSeesWholeCollections ==
    \A s \in SearchCallers :
        searches[s].pc = "returned" =>
            \A k \in 1..Len(searches[s].scored) :
                \E p \in IndexCallers :
                    /\ Returned(p)
                    /\ calls[p].name = searches[s].scored[k].name
                    /\ searches[s].scored[k].entries = calls[p].allChunks

\* a search during which collection "a" was re-indexed, and which scored
\* entries of it
C2_Witness ==
    \E s \in SearchCallers :
        /\ searches[s].pc = "returned"
        /\ "a" \in searches[s].reindexed
        /\ \E k \in 1..Len(searches[s].scored) :
               /\ searches[s].scored[k].name = "a"
               /\ searches[s].scored[k].entries # << >>

\* the callers whose pipeline(...) construction is in flight
InitializingCallers ==
    { p \in IndexCallers : calls[p].pc = "init" }
        \cup { s \in SearchCallers : searches[s].pc = "init" }

\* C4: at most one construction of the embedding pipeline is in flight.
C4_SingleFlightInitialization == Cardinality(InitializingCallers) <= 1

\* C5: the step in which an index call on collection c returns leaves in c
\* exactly the entries of that run, all made by it, and leaves every other
\* collection as it was.
C5_FullReplace ==
    [][ \A p \in IndexCallers :
          (calls[p].pc # "returned" /\ calls'[p].pc = "returned") =>
              /\ calls'[p].name \in SeqToSet(indexKeys')
              /\ indexedChunks'[calls'[p].name] = calls'[p].allChunks
              /\ \A k \in 1..Len(indexedChunks'[calls'[p].name]) :
                     indexedChunks'[calls'[p].name][k].run = p
              /\ \A n \in CallNames \ { calls'[p].name } :
                     /\ indexedChunks'[n] = indexedChunks[n]
                     /\ (n \in SeqToSet(indexKeys')) = (n \in SeqToSet(indexKeys))
      ]_vars

\* "a" was indexed by one caller and then again by the other, "b" is
\* indexed too: "a" holds the second run's entries
C5_Witness ==
    /\ Returned("api") /\ Returned("tool")
    /\ calls["api"].name = "a" /\ calls["tool"].name = "a"
    /\ calls["api"].allChunks # << >>
    /\ indexedChunks["a"] = calls["tool"].allChunks
    /\ Len(indexedChunks["a"]) >= 2

\* C6 as stated: a file whose read or whose embedding of a chunk failed is
\* counted as skipped and not as indexed.
C6_FailedFileIsSkipped ==
    \A p \in IndexCallers : \A k \in TaskPositions(p) :
        LET t == calls[p].tasks[k]
        IN  (t.st = "settled" /\ (t.ioFailed \/ t.embedFailed)) =>
                t.counted = "skipped"

\* C6 as amended: a file whose size check or read failed is counted as
\* skipped and not as indexed; a file that was read is counted as indexed
\* and not as skipped, also when the embedding of some or all of its chunks
\* failed (only those chunks are dropped); the two counters count exactly
\* these files.
C6_ReadFailureSkipsEmbedFailureDoesNot ==
    \A p \in IndexCallers :
        /\ \A k \in TaskPositions(p) :
               LET t == calls[p].tasks[k]
               IN  t.st = "settled" =>
                       /\ t.ioFailed => t.counted = "skipped"
                       /\ (~t.ioFailed /\ ~t.tooLarge) => t.counted = "indexed"
                       /\ t.embedFailed =>
                              /\ t.counted = "indexed"
                              /\ Len(t.done) < Len(ChunkText(
                                     ReadFile(calls[p].filesToIndex[k]),
                                     GetChunkSize(chunkSize),
                                     GetChunkOverlap(chunkOverlap)).chunks)
        /\ ~calls[p].stuck =>
               /\ calls[p].skippedCount = Cardinality(CountedAs(p, "skipped"))
               /\ calls[p].indexedCount = Cardinality(CountedAs(p, "indexed"))

\* a report of a run in which a read failed (skipped) and an embedding
\* failed (indexed all the same)
C6_Witness ==
    /\ Returned("api")
    /\ \E k \in TaskPositions("api") :
           calls["api"].tasks[k].ioFailed /\ calls["api"].tasks[k].counted = "skipped"
    /\ \E k \in TaskPositions("api") :
           calls["api"].tasks[k].embedFailed /\ calls["api"].tasks[k].counted = "indexed"

\* a window size and an overlap the chunker is specified for
ValidWindow(size, overlap) ==
    size >= 1 /\ 0 <= overlap /\ overlap < size

\* C7: with a window size W >= 1, an overlap 0 <= O < W and a batch size of
\* at least 1, an index call that has entered its batch loop does not throw,
\* goes on processing the remaining files whatever failed, and returns its
\* counts: it is never left without a step to take.
C7_FailuresDoNotStopTheRun ==
    \A p \in IndexCallers :
        /\ calls[p].pc = "thrown" => calls[p].tasks = << >>
        /\ ( /\ calls[p].pc = "batch"
             /\ calls[p].batchSize >= 1
             /\ ValidWindow(GetChunkSize(chunkSize), GetChunkOverlap(chunkOverlap)) ) =>
               /\ ~calls[p].stuck
               /\ \/ BatchSettled(calls[p])
                  \/ \E k \in TaskPositions(p) : calls[p].tasks[k].st = "running"

\* the batch (0-based) of the file at position k
BatchOf(p, k) == (k - 1) \div calls[p].batchSize

Started(p) == { k \in TaskPositions(p) : calls[p].tasks[k].st # "new" }

Running(p) == { k \in TaskPositions(p) : calls[p].tasks[k].st = "running" }

\* C8: a file task of a later batch is started only when every file task of
\* the earlier batches has settled, and at every moment at most batchSize
\* file tasks are in flight.
C8_BatchesAreSequential ==
    \A p \in IndexCallers :
        calls[p].pc \in { "batch", "returned" } =>
            /\ Cardinality(Running(p)) <= calls[p].batchSize
            /\ calls[p].batchSize >= 1 =>
                   \A j \in TaskPositions(p), k \in Started(p) :
                       BatchOf(p, j) < BatchOf(p, k) =>
                           calls[p].tasks[j].st = "settled"

\* two batches of two files: the second batch is running, the first has
\* settled
C8_Witness ==
    /\ calls["api"].pc = "batch"
    /\ calls["api"].batchSize = 2
    /\ calls["api"].i = 2
    /\ Running("api") # { }
    /\ \A k \in { 1, 2 } : calls["api"].tasks[k].st = "settled"

\* C10: with an overlap that is not smaller than the window size no index
\* call gets to its batch loop: no file is read or chunked, nothing is
\* embedded, and the index stays as it was.
C10_InvalidOverlapFailsFast ==
    GetChunkOverlap(chunkOverlap) >= GetChunkSize(chunkSize) =>
        /\ \A p \in IndexCallers :
               /\ calls[p].reads = << >>
               /\ calls[p].pc \notin { "batch", "returned" }
        /\ indexKeys = << >>

(***************************************************************************)
(* The chunker on its own: every text, window size and overlap.            *)
(***************************************************************************)
Chars == { "x", NL }

RECURSIVE TextsOfLen(_)
TextsOfLen(n) ==
    IF n = 0 THEN { << >> }
    ELSE { Append(t, c) : t \in TextsOfLen(n - 1), c \in Chars }

Texts == UNION { TextsOfLen(n) : n \in 0..MaxTextLen }

ChunkInit ==
    /\ ckPc = "call"
    /\ ckText \in Texts
    /\ ckSize \in 1..MaxWindow
    /\ ckOverlap \in (-1)..MaxWindow
    /\ ckLines = << >>
    /\ ckStart = 0
    /\ ckChunks = << >>
    /\ EngineInit
    /\ FnIdle
    /\ chunkSize = 0
    /\ chunkOverlap = 0

\* const lines = text.split('\n'); chunks = []; let start = 0
ChunkCall ==
    /\ ckPc = "call"
    /\ ckLines' = Split(ckText)
    /\ ckStart' = 0
    /\ ckChunks' = << >>
    /\ ckPc' = "loop"
    /\ UNCHANGED << ckText, ckSize, ckOverlap, plVars,
                    fnVars >>

\* one pass through the body of while (start < lines.length)
ChunkIterate ==
    /\ ckPc = "loop"
    /\ LoopCondition(ckLines, ckStart)
    /\ Len(ckChunks) < MaxChunks
    /\ ckChunks' = Append(ckChunks, ChunkAt(ckLines, ckSize, ckStart))
    /\ ckStart' = NextStart(ckLines, ckSize, ckOverlap, ckStart)
    /\ UNCHANGED << ckPc, ckText, ckLines, ckSize, ckOverlap, plVars,
                    fnVars >>

\* the loop condition fails: return chunks
ChunkReturn ==
    /\ ckPc = "loop"
    /\ ~LoopCondition(ckLines, ckStart)
    /\ ckPc' = "returned"
    /\ UNCHANGED << ckText, ckLines, ckSize, ckOverlap, ckStart, ckChunks, plVars,
                    fnVars >>

ChunkNext == ChunkCall \/ ChunkIterate \/ ChunkReturn

ChunkSpec == ChunkInit /\ [][ChunkNext]_vars

(***************************************************************************)
(* Properties of the chunker.                                              *)
(***************************************************************************)
\* ceil(a / b) for b > 0
CeilDiv(a, b) == IF a % b = 0 THEN a \div b ELSE (a \div b) + 1

ExpectedChunkCount(L, W, O) == IF L > 0 THEN CeilDiv(L - O, W - O) ELSE 0

\* C3: for W >= 1 and 0 <= O < W the first window whose end reaches the last
\* line is the last chunk emitted: no chunk before the last one ends at the
\* last line.
C3_LastLineWindowIsLast ==
    ValidWindow(ckSize, ckOverlap) =>
        \A k \in 1..(Len(ckChunks) - 1) : ckChunks[k].end < Len(ckLines)

\* C9: for 0 <= O < W the chunker emits ceil((L - O) / (W - O)) chunks for a
\* text of L lines (never more, and exactly that many when it returns); the
\* ranges start at line 1, each next one starts O lines before the previous
\* end, and the last one ends at line L.
C9_ChunkCountAndCoverage ==
    ValidWindow(ckSize, ckOverlap) =>
        /\ Len(ckChunks) <= ExpectedChunkCount(Len(ckLines), ckSize, ckOverlap)
        /\ \A k \in 1..Len(ckChunks) :
               /\ ckChunks[k].start = (IF k = 1 THEN 1
                                       ELSE ckChunks[k - 1].end - ckOverlap + 1)
               /\ ckChunks[k].end = Min(ckChunks[k].start + ckSize - 1, Len(ckLines))
        /\ ckPc = "returned" =>
               /\ Len(ckChunks) = ExpectedChunkCount(Len(ckLines), ckSize, ckOverlap)
               /\ Len(ckChunks) > 0 => ckChunks[Len(ckChunks)].end = Len(ckLines)

(***************************************************************************)
(* Searches with every choice of names and limit, over an index that two   *)
(* index calls fill: one of collection "a", one of collection "b".         *)
(***************************************************************************)
\* codebaseNames: omitted, or an array of names
SearchNamesChoices ==
    { << >>, << << "b", "a" >> >>, << << "b" >> >>, << << "a", "u" >> >> }

\* limit: any number the caller passes
SearchLimitChoices == { -1, 0, 1, 2, 10 }

SearchNext ==
    \/ IndexCall("api", "a", << >>, << >>, << >>)
    \/ IndexCall("tool", "b", << >>, << >>, << >>)
    \/ \E p \in IndexCallers, ok \in BOOLEAN : IndexInitSettle(p, ok)
    \/ \E p \in IndexCallers : IndexProceed(p)
    \/ \E p \in IndexCallers : \E pos \in 1..Len(calls[p].tasks), ok \in BOOLEAN :
          EmbedSettle(p, pos, ok)
    \/ \E p \in IndexCallers : BatchJoin(p)
    \/ \E p \in SearchCallers, q \in Queries, names \in SearchNamesChoices,
          limit \in SearchLimitChoices : SearchCall(p, q, names, limit)
    \/ \E p \in SearchCallers, ok \in BOOLEAN : SearchInitSettle(p, ok)
    \/ \E p \in SearchCallers : SearchEmbed(p)
    \/ \E p \in SearchCallers, ok \in BOOLEAN : SearchSettle(p, ok)

SearchSpec == Init /\ [][SearchNext]_vars

(***************************************************************************)
(* Properties of the search result.                                        *)
(***************************************************************************)
RECURSIVE ConcatEntries(_, _)
ConcatEntries(scored, k) ==
    IF k > Len(scored) THEN << >>
    ELSE scored[k].entries \o ConcatEntries(scored, k + 1)

\* the candidates of search s in enumeration order: the entries of the
\* selected collections, collection after collection
Candidates(s) == ConcatEntries(searches[s].scored, 1)

CandidateScore(s, e) == CosineSimilarity(Embed(searches[s].query), e.embedding)

ResultChunks(s) == { searches[s].result[i].chunk : i \in 1..Len(searches[s].result) }

SearchReturned(s) == searches[s].pc = "returned"

\* C11: a search that returns gives the first min(limit, N) of its N
\* candidates in descending score order: never more than limit results
\* (none when limit is below 1), scores non-increasing along the result,
\* every result a candidate with its score, and no candidate left out that
\* scores higher than a result.
C11_TopKWithinLimit ==
    \A s \in SearchCallers :
        SearchReturned(s) =>
            LET r == searches[s].result
                c == Candidates(s)
            IN  /\ Len(r) <= Max(searches[s].limit, 0)
                /\ Len(r) = Min(Max(searches[s].limit, 0), Len(c))
                /\ \A i \in 1..(Len(r) - 1) : ~ScoreLess(r[i].score, r[i + 1].score)
                /\ \A i \in 1..Len(r) :
                       /\ r[i].chunk \in SeqToSet(c)
                       /\ r[i].score = CandidateScore(s, r[i].chunk)
                /\ \A e \in SeqToSet(c) \ ResultChunks(s) :
                       \A i \in 1..Len(r) :
                           ~ScoreLess(r[i].score, CandidateScore(s, e))

ScoreEq(s, t) == ~ScoreLess(s, t) /\ ~ScoreLess(t, s)

\* the place of entry e in the candidate enumeration of search s
CandidateIndex(s, e) ==
    CHOOSE k \in 1..Len(Candidates(s)) : Candidates(s)[k] = e

\* C12: two results with exactly equal scores appear in candidate
\* enumeration order (the order of their collections in the selection, or in
\* the index when no names are given, then the order of the entries in
\* their collection), and a candidate that ties with a result and is
\* enumerated before it is in the result too.
C12_TiesInEnumerationOrder ==
    \A s \in SearchCallers :
        SearchReturned(s) =>
            LET r == searches[s].result
                c == Candidates(s)
            IN  /\ \A i, j \in 1..Len(r) :
                       (i < j /\ ScoreEq(r[i].score, r[j].score)) =>
                           CandidateIndex(s, r[i].chunk) < CandidateIndex(s, r[j].chunk)
                /\ \A j \in 1..Len(r), k \in 1..Len(c) :
                       ( /\ k < CandidateIndex(s, r[j].chunk)
                         /\ ScoreEq(CandidateScore(s, c[k]), r[j].score) ) =>
                           c[k] \in ResultChunks(s)

\* a search of "b" then "a", indexed in the order "a", "b": the first two
\* results tie, the first is of "b" and the second of "a"; two entries of
\* "a" tie as well
C12_Witness ==
    \E s \in SearchCallers :
        /\ SearchReturned(s)
        /\ searches[s].names = << << "b", "a" >> >>
        /\ indexKeys = << "a", "b" >>
        /\ Len(searches[s].result) >= 3
        /\ ScoreEq(searches[s].result[1].score, searches[s].result[3].score)
        /\ searches[s].result[1].chunk.codebase = "b"
        /\ searches[s].result[2].chunk.codebase = "a"
        /\ searches[s].result[3].chunk.codebase = "a"

\* the names search s was given (none when codebaseNames was omitted)
GivenNames(s) ==
    IF searches[s].names = << >> THEN { } ELSE SeqToSet(searches[s].names[1])

NeverIndexed(n) == \A p \in IndexCallers : ~(Returned(p) /\ calls[p].name = n)

C14_UnregisteredIndexFails ==
    [][ \A p \in IndexCallers :
          /\ ( /\ calls[p].pc = "idle" /\ calls'[p].pc # "idle"
               /\ calls'[p].name \notin RegisteredNames ) =>
                 /\ calls'[p].pc = "thrown"
                 /\ calls'[p].error = "CollectionNotFound"
                 /\ indexKeys' = indexKeys
                 /\ indexedChunks' = indexedChunks
          /\ ( /\ calls[p].pc # "idle"
               /\ calls[p].name \notin RegisteredNames ) =>
                 /\ calls'[p] = calls[p]
                 /\ calls[p].pc = "thrown"
                 /\ calls[p].reads = << >>
      ]_vars

\* "a" is indexed and has entries; the index call on "u" has failed
C14_Witness ==
    /\ calls["api"].pc = "thrown"
    /\ calls["api"].name = "u"
    /\ calls["api"].error = "CollectionNotFound"
    /\ Returned("tool")
    /\ indexKeys = << "a" >>
    /\ indexedChunks["a"] # << >>

(***************************************************************************)
(* clearIndex and getIndexedCodebases, with the index calls that fill the  *)
(* index.                                                                  *)
(***************************************************************************)
\* clearIndex(codebaseName?): called without a name, or with a name that may
\* be indexed ("a", "b"), not indexed ("u") or the empty string
ClearChoices == { << >>, << "a" >>, << "b" >>, << "u" >>, << "" >> }

\* if (codebaseName): a string is truthy unless it is empty
JsTruthy(arg) == arg # << >> /\ arg[1] # ""

\* this.indexedChunks.delete(codebaseName) or this.indexedChunks.clear()
ClearedChunks(stored, arg) ==
    IF JsTruthy(arg)
    THEN [ n \in DOMAIN stored |-> IF n = arg[1] THEN << >> ELSE stored[n] ]
    ELSE [ n \in DOMAIN stored |-> << >> ]

ClearedKeys(keys, arg) ==
    IF JsTruthy(arg) THEN SelectSeq(keys, LAMBDA k : k # arg[1]) ELSE << >>

\* Bookkeeping: the finished index calls whose collection the caller has
\* asked to clear since, by its name or by clearing all.
NoteCleared(cs, arg) ==
    [ p \in DOMAIN cs |->
        IF cs[p].pc = "returned" /\ (arg = << >> \/ cs[p].name = arg[1])
        THEN [ cs[p] EXCEPT !.cleared = TRUE ]
        ELSE cs[p] ]

ClearIndex(arg) ==
    /\ ~Hung
    /\ indexedChunks' = ClearedChunks(indexedChunks, arg)
    /\ indexKeys' = ClearedKeys(indexKeys, arg)
    /\ calls' = NoteCleared(calls, arg)
    /\ UNCHANGED << ckVars, fnVars, codebases, chunkSize, chunkOverlap, initialized,
                    embeddingPipeline, searches, pipelineStarts >>

\* getIndexedCodebases(): Array.from(this.indexedChunks.keys())
GetIndexedCodebases == indexKeys

ClearNext ==
    \/ \E p \in IndexCallers, name \in RegisteredNames :
          IndexCall(p, name, << >>, << >>, << >>)
    \/ \E p \in IndexCallers, ok \in BOOLEAN : IndexInitSettle(p, ok)
    \/ \E p \in IndexCallers : IndexProceed(p)
    \/ \E p \in IndexCallers : \E pos \in 1..Len(calls[p].tasks), ok \in BOOLEAN :
          EmbedSettle(p, pos, ok)
    \/ \E p \in IndexCallers : BatchJoin(p)
    \/ \E arg \in ClearChoices : ClearIndex(arg)

ClearSpec == Init /\ [][ClearNext]_vars

(***************************************************************************)
(* Properties of clearIndex and getIndexedCodebases.                       *)
(***************************************************************************)
\* the names with a finished index call that the caller has not asked to
\* clear since
IndexedAndNotCleared ==
    { calls[p].name : p \in { q \in IndexCallers : Returned(q) /\ ~calls[q].cleared } }

\* C15: getIndexedCodebases returns exactly the names for which an index
\* call has completed and that have not been cleared, by name or by
\* clearing all, since.
C15_ListIsIndexedAndNotCleared ==
    SeqToSet(GetIndexedCodebases) = IndexedAndNotCleared

\* what clearIndex is specified to do with the keys
KeysWithout(keys, name) == SelectSeq(keys, LAMBDA k : k # name)

\* C16: clearIndex(name) removes exactly the collection of that name, for
\* every name string, and leaves the keys and the entries of every other
\* collection as they were; clearIndex() removes every collection.
C16_ClearRemovesExactlyNamed ==
    [][ \A arg \in ClearChoices :
          ClearIndex(arg) =>
              IF arg = << >>
              THEN /\ indexKeys' = << >>
                   /\ \A n \in CallNames : indexedChunks'[n] = << >>
              ELSE /\ indexKeys' = KeysWithout(indexKeys, arg[1])
                   /\ \A n \in CallNames :
                          indexedChunks'[n] =
                              IF n = arg[1] THEN << >> ELSE indexedChunks[n]
      ]_vars

FilePosition(p, file) ==
    CHOOSE k \in 1..Len(calls[p].filesToIndex) : calls[p].filesToIndex[k] = file

\* C18: an index call with maxFiles = m over n walked files works on the
\* first min(m, n) files in discovery order (all n when maxFiles is
\* omitted): these are its file tasks, it reads no other file and reads
\* in that order, its entries come from these files in that order, and
\* when it returns every one of them has been processed.
C18_FirstFilesInDiscoveryOrder ==
    \A p \in IndexCallers :
        calls[p].pc \in { "batch", "returned" } =>
            LET c == calls[p]
                walked == WalkDirectory(c.name)
                k == IF c.maxFiles = << >> THEN Len(walked)
                     ELSE Min(c.maxFiles[1], Len(walked))
            IN  /\ c.filesToIndex = SubSeq(walked, 1, k)
                /\ Len(c.tasks) = k
                /\ \A i \in 1..Len(c.reads) : c.reads[i] \in SeqToSet(c.filesToIndex)
                /\ \A i, j \in 1..Len(c.reads) :
                       i < j => FilePosition(p, c.reads[i]) < FilePosition(p, c.reads[j])
                /\ \A i \in 1..Len(c.allChunks) :
                       c.allChunks[i].filePath \in SeqToSet(c.filesToIndex)
                /\ \A i, j \in 1..Len(c.allChunks) :
                       i < j => FilePosition(p, c.allChunks[i].filePath)
                                    <= FilePosition(p, c.allChunks[j].filePath)
                /\ Returned(p) => \A j \in 1..k : c.tasks[j].st = "settled"

\* a run with maxFiles = 2 over the four files of "a" that read f1 and f3,
\* made entries from both and returned
C18_Witness ==
    /\ Returned("api")
    /\ calls["api"].maxFiles = << 2 >>
    /\ Len(calls["api"].files) = 4
    /\ calls["api"].reads = << "f1", "f3" >>
    /\ \E i \in 1..Len(calls["api"].allChunks) :
           calls["api"].allChunks[i].filePath = "f3"
    /\ \E i \in 1..Len(calls["api"].allChunks) :
           calls["api"].allChunks[i].filePath = "f1"

(***************************************************************************)
(* Properties of the size check.                                           *)
(***************************************************************************)
TenMiB == 10 * 1024 * 1024

\* the entries call p holds, stored or not yet, that were made from file
EntriesOf(p, file) ==
    { e \in SeqToSet(calls[p].allChunks) : e.filePath = file }
        \cup UNION { SeqToSet(calls[p].tasks[k].done) :
                        k \in { j \in TaskPositions(p) : calls[p].filesToIndex[j] = file } }

\* C19: with skipLargeFiles on, a file of more than 10 MiB is never read,
\* gives no entry and is counted as skipped, while a file of 10 MiB or less
\* is not skipped for its size; with skipLargeFiles off no file is skipped
\* for its size: a file of more than 10 MiB is read like any other.
C19_LargeFilesSkippedUnread ==
    \A p \in IndexCallers : \A k \in TaskPositions(p) :
        LET c == calls[p]
            file == c.filesToIndex[k]
            t == c.tasks[k]
            exists == ~StatThrows(file) /\ ~ReadThrows(file)
        IN  /\ (c.skipLargeFiles /\ exists /\ StatSize(file) > TenMiB) =>
                   /\ file \notin SeqToSet(c.reads)
                   /\ EntriesOf(p, file) = { }
                   /\ t.st \in { "new", "settled" }
                   /\ t.st = "settled" => (t.counted = "skipped" /\ t.tooLarge)
            /\ (c.skipLargeFiles /\ exists /\ StatSize(file) <= TenMiB) =>
                   /\ ~t.tooLarge
                   /\ t.st # "new" => file \in SeqToSet(c.reads)
            /\ (~c.skipLargeFiles /\ exists) =>
                   /\ ~t.tooLarge
                   /\ t.st # "new" => file \in SeqToSet(c.reads)
                   /\ t.st = "settled" => t.counted = "indexed"

\* a default run over "a" returned: f3, larger than 10 MiB, was skipped
\* unread, f1 was read and gave entries
C19_Witness ==
    /\ Returned("api")
    /\ calls["api"].skipLargeFiles
    /\ calls["api"].filesToIndex = << "f1", "f3", "f4", "f2" >>
    /\ calls["api"].tasks[2].tooLarge
    /\ calls["api"].tasks[2].counted = "skipped"
    /\ "f3" \notin SeqToSet(calls["api"].reads)
    /\ EntriesOf("api", "f1") # { }
    /\ calls["api"].report.skipped = 2

(***************************************************************************)
(* The chunker on the text of an empty file.                               *)
(***************************************************************************)
\* C20: for a window size W >= 1 and an overlap 0 <= O < W, chunking the
\* empty text returns no chunk.
C20_EmptyTextHasNoChunks ==
    (ckPc = "returned" /\ ckText = << >> /\ ValidWindow(ckSize, ckOverlap)) =>
        ckChunks = << >>

(***************************************************************************)
(* cosineSimilarity followed on its own: the scoring loop of search over   *)
(* one stored collection whose embeddings are any vectors of bounded       *)
(* length, the query embedding being any such vector as well.              *)
(***************************************************************************)
MaxVecLen == 2

VecComponents == { -1, 0, 1 }

Vectors == UNION { [1..n -> VecComponents] : n \in 0..MaxVecLen }

StoredVectors == { << v >> : v \in Vectors } \cup (Vectors \X Vectors)

VectorEntry(k, v) == [ startLine |-> k, embedding |-> v ]

\* search, lines 270-277, entered with a query embedding and a collection
CosineCall(queryEmbedding, embeddings) ==
    /\ cosine.pc = "idle"
    /\ cosine' = [ pc |-> "scoring",
                   queryEmbedding |-> queryEmbedding,
                   chunks |-> [ k \in 1..Len(embeddings) |->
                                  VectorEntry(k, embeddings[k]) ] ]
    /\ UNCHANGED << ckVars, plVars, request, resolved, settleOrder >>

\* the loop over the chunks, and the sort that follows it
CosineReturn ==
    /\ cosine.pc = "scoring"
    /\ cosine' = [ pc |-> "returned",
                   queryEmbedding |-> cosine.queryEmbedding,
                   chunks |-> cosine.chunks,
                   results |-> SortByScore(ScoreChunks(cosine.queryEmbedding,
                                                       cosine.chunks)) ]
    /\ UNCHANGED << ckVars, plVars, request, resolved, settleOrder >>

CosineNext ==
    \/ \E q \in Vectors, e \in StoredVectors : CosineCall(q, e)
    \/ CosineReturn

CosineSpec == Init /\ [][CosineNext]_vars

ZeroNorm(v) == \A k \in 1..Len(v) : v[k] = 0

NoDirection(u, v) == Len(u) # Len(v) \/ ZeroNorm(u) \/ ZeroNorm(v)

(***************************************************************************)
(* C21: the scoring of a query against a stored collection returns, and    *)
(* every stored entry whose embedding has zero norm, or is compared with a *)
(* query embedding of zero norm or of another length, is among the scored  *)
(* results with the score zero.                                            *)
(***************************************************************************)
C21_NoDirectionScoresZero ==
    cosine.pc = "returned" =>
        /\ Len(cosine.results) = Len(cosine.chunks)
        /\ \A k \in 1..Len(cosine.chunks) :
              NoDirection(cosine.queryEmbedding, cosine.chunks[k].embedding) =>
                  \E j \in 1..Len(cosine.results) :
                      /\ cosine.results[j].chunk = cosine.chunks[k]
                      /\ cosine.results[j].score.num = 0
                      /\ cosine.results[j].score.den2 > 0

\* a zero-norm entry and an entry of another length scored with a query
\* that has a direction
C21_Witness ==
    /\ cosine.pc = "returned"
    /\ ~ZeroNorm(cosine.queryEmbedding)
    /\ Len(cosine.chunks) = 2
    /\ Len(cosine.chunks[1].embedding) = Len(cosine.queryEmbedding)
    /\ ZeroNorm(cosine.chunks[1].embedding)
    /\ Len(cosine.chunks[2].embedding) # Len(cosine.queryEmbedding)
    /\ \A j \in 1..2 : cosine.results[j].score.num = 0

(***************************************************************************)
(* Two runs of indexCodebase compared.                                     *)
(***************************************************************************)
SameRequest(p, q) ==
    /\ Returned(p) /\ Returned(q)
    /\ calls[p].name = calls[q].name
    /\ calls[p].maxFiles = calls[q].maxFiles
    /\ calls[p].batchSize = calls[q].batchSize
    /\ calls[p].skipLargeFiles = calls[q].skipLargeFiles

LineTuples(chunks) ==
    { << chunks[k].filePath, chunks[k].startLine, chunks[k].endLine >> :
          k \in 1..Len(chunks) }

\* the entries without the name of the run that made them
Untagged(chunks) ==
    [ k \in 1..Len(chunks) |->
        [ content |-> chunks[k].content, filePath |-> chunks[k].filePath,
          codebase |-> chunks[k].codebase, startLine |-> chunks[k].startLine,
          endLine |-> chunks[k].endLine, embedding |-> chunks[k].embedding ] ]

AllEmbedded(p) ==
    \A k \in TaskPositions(p) : ~calls[p].tasks[k].embedFailed

C23_InitFailureIsFatal ==
    [][ /\ \A p \in IndexCallers :
              IndexInitSettle(p, FALSE) =>
                  /\ calls'[p].pc = "thrown"
                  /\ calls'[p].error = "EmbeddingUnavailable"
                  /\ calls'[p].tasks = << >> /\ calls'[p].reads = << >>
                  /\ calls'[p].skippedCount = 0 /\ calls'[p].indexedCount = 0
                  /\ calls'[p].report = NoReport
                  /\ pipelineStarts' = pipelineStarts
                  /\ indexKeys' = indexKeys /\ indexedChunks' = indexedChunks
        /\ \A s \in SearchCallers :
              SearchInitSettle(s, FALSE) =>
                  /\ searches'[s].pc = "thrown"
                  /\ searches'[s].error = "EmbeddingUnavailable"
                  /\ searches'[s].result = << >>
                  /\ pipelineStarts' = pipelineStarts
                  /\ indexKeys' = indexKeys /\ indexedChunks' = indexedChunks
        /\ \A p \in IndexCallers :
              calls[p].pc = "thrown" => calls'[p] = calls[p]
        /\ \A s \in SearchCallers :
              searches[s].pc = "thrown" => searches'[s] = searches[s]
      ]_vars

\* the pipeline of one index call and the pipeline of the search failed,
\* while the other index call, whose pipeline was built, stored entries
C23_Witness ==
    /\ calls["api"].pc = "thrown"
    /\ calls["api"].error = "EmbeddingUnavailable"
    /\ searches["s1"].pc = "thrown"
    /\ searches["s1"].error = "EmbeddingUnavailable"
    /\ Returned("tool")
    /\ calls["tool"].name = calls["api"].name
    /\ indexedChunks[calls["api"].name] = calls["tool"].allChunks
    /\ calls["tool"].allChunks # << >>
    /\ pipelineStarts = 3

(***************************************************************************)
(* Two index calls on the same collection.                                 *)
(***************************************************************************)
BothReturnedOnOneName ==
    /\ Returned("api") /\ Returned("tool")
    /\ calls["api"].name = calls["tool"].name

Completes(p) == calls[p].pc # "returned" /\ calls'[p].pc = "returned"

RunsOf(chunks) == { chunks[k].run : k \in 1..Len(chunks) }

(***************************************************************************)
(* C24: the step with which the second of two index calls on one           *)
(* collection completes leaves that call's complete entries as the         *)
(* collection, and the collection stays so afterwards; at no time does a   *)
(* collection hold entries of two calls, or a part of a call's entries.    *)
(***************************************************************************)
C24_LastWriteWins ==
    [][ /\ \A p \in IndexCallers :
              (Completes(p) /\ BothReturnedOnOneName') =>
                  indexedChunks'[calls'[p].name] = calls'[p].allChunks
        /\ BothReturnedOnOneName =>
              indexedChunks'[calls["api"].name] = indexedChunks[calls["api"].name]
        /\ \A n \in CallNames :
              /\ Cardinality(RunsOf(indexedChunks'[n])) <= 1
              /\ \A p \in RunsOf(indexedChunks'[n]) :
                    /\ calls'[p].pc = "returned" /\ calls'[p].name = n
                    /\ indexedChunks'[n] = calls'[p].allChunks
      ]_vars

\* both calls were started before the pipeline of either was built, both
\* completed on "a" with different entries, and "a" holds the entries of
\* one of them
C24_Witness ==
    /\ BothReturnedOnOneName
    /\ calls["api"].name = "a"
    /\ pipelineStarts = 2 /\ searches["s1"].pc = "idle"
    /\ calls["api"].allChunks # << >> /\ calls["tool"].allChunks # << >>
    /\ Untagged(calls["api"].allChunks) # Untagged(calls["tool"].allChunks)
    /\ indexedChunks["a"] = calls["api"].allChunks

(***************************************************************************)
(* The server's CallToolRequest handler, for the tools index_codebase and  *)
(* get_indexed_codebases and for names that are no tool.  The handler's    *)
(* index call is the caller "tool".                                        *)
(***************************************************************************)
UnknownToolNames == { "reindex", "" }

ToolCodebaseNames == { "a", "u" }
ToolMaxFilesChoices == { << >>, << 1 >> }
ToolBatchSizeChoices == { << >>, << 1 >> }
ToolSkipLargeChoices == { << >>, << FALSE >> }

IndexArguments ==
    [ codebaseName : ToolCodebaseNames, maxFiles : ToolMaxFilesChoices,
      batchSize : ToolBatchSizeChoices, skipLargeFiles : ToolSkipLargeChoices ]

\* the catch of the handler: whatever was thrown inside the try, an McpError
\* included, is replaced by an McpError with the code InternalError
HandlerCatch(thrown) ==
    [ kind |-> "McpError", code |-> "InternalError", cause |-> thrown ]

Answered(tool, args, error, result) ==
    [ pc |-> "answered", tool |-> tool, args |-> args, error |-> error,
      result |-> result ]

NoError == [ kind |-> "none", code |-> "", cause |-> "" ]

\* case 'index_codebase': codebaseName is taken from the arguments and
\* indexCodebase(codebaseName) is awaited
ToolIndexCodebase(args) ==
    /\ request.pc = "idle"
    /\ IndexStart("tool", args.codebaseName, << >>, << >>, << >>)
    /\ request' = IF calls'["tool"].pc = "thrown"
                  THEN Answered("index_codebase", args,
                                HandlerCatch(calls'["tool"].error), << >>)
                  ELSE [ pc |-> "awaiting", tool |-> "index_codebase",
                         args |-> args ]

\* the awaited indexCodebase settles: the success text is returned, or the
\* rejection is caught
ToolIndexSettled ==
    /\ request.pc = "awaiting"
    /\ calls["tool"].pc \in { "returned", "thrown" }
    /\ request' = Answered(request.tool, request.args,
                           IF calls["tool"].pc = "thrown"
                           THEN HandlerCatch(calls["tool"].error) ELSE NoError,
                           IF calls["tool"].pc = "thrown"
                           THEN << >> ELSE << "success" >>)
    /\ UNCHANGED << ckVars, plVars, auxVars >>

\* case 'get_indexed_codebases'
ToolGetIndexedCodebases ==
    /\ request.pc = "idle"
    /\ request' = Answered("get_indexed_codebases", << >>, NoError,
                           GetIndexedCodebases)
    /\ UNCHANGED << ckVars, plVars, auxVars >>

\* default: throw new McpError(ErrorCode.MethodNotFound, ...), inside the try
ToolDefault(name) ==
    /\ request.pc = "idle"
    /\ request' = Answered(name, << >>, HandlerCatch("MethodNotFound"), << >>)
    /\ UNCHANGED << ckVars, plVars, auxVars >>

ToolNext ==
    \/ \E args \in IndexArguments : ToolIndexCodebase(args)
    \/ ToolIndexSettled
    \/ ToolGetIndexedCodebases
    \/ \E name \in UnknownToolNames : ToolDefault(name)
    \/ \E name \in RegisteredNames : IndexCall("api", name, << >>, << >>, << >>)
    \/ \E p \in IndexCallers, ok \in BOOLEAN : IndexInitSettle(p, ok)
    \/ \E p \in IndexCallers : IndexProceed(p)
    \/ \E p \in IndexCallers : \E pos \in 1..Len(calls[p].tasks), ok \in BOOLEAN :
          EmbedSettle(p, pos, ok)
    \/ \E p \in IndexCallers : BatchJoin(p)

ToolSpec == Init /\ [][ToolNext]_vars

IndexToolCalled ==
    request.pc \in { "awaiting", "answered" } /\ request.tool = "index_codebase"

\* C25 as stated: the index call of an index_codebase request indexes at
\* most maxFiles files when maxFiles is among the arguments, starts at most
\* batchSize files together when batchSize is among them, and skips no
\* file for its size when skipLargeFiles is false.
C25_ToolOptionsAreHonoured ==
    IndexToolCalled =>
        LET c == calls["tool"]
            a == request.args
        IN  /\ a.maxFiles # << >> => c.indexedCount <= a.maxFiles[1]
            /\ (a.batchSize # << >> /\ c.pc = "batch") =>
                   Len(BatchPositions(c)) <= a.batchSize[1]
            /\ a.skipLargeFiles = << FALSE >> =>
                   \A k \in 1..Len(c.tasks) : ~c.tasks[k].tooLarge

\* the same, one option at a time
C25_MaxFilesHonoured ==
    (IndexToolCalled /\ request.args.maxFiles # << >>) =>
        calls["tool"].indexedCount <= request.args.maxFiles[1]

C25_BatchSizeHonoured ==
    (IndexToolCalled /\ request.args.batchSize # << >>
        /\ calls["tool"].pc = "batch") =>
        Len(BatchPositions(calls["tool"])) <= request.args.batchSize[1]

C25_SkipLargeFilesHonoured ==
    (IndexToolCalled /\ request.args.skipLargeFiles = << FALSE >>) =>
        \A k \in 1..Len(calls["tool"].tasks) : ~calls["tool"].tasks[k].tooLarge

RequestAnswered == request.pc = "answered"

\* C26 as stated: a request whose tool name is unknown is answered with an
\* McpError of code MethodNotFound, and a request of a known tool whose
\* execution raised an error with an McpError of code InternalError.
C26_ErrorCodesByCause ==
    RequestAnswered =>
        /\ request.tool \in UnknownToolNames =>
              (request.error.kind = "McpError"
                  /\ request.error.code = "MethodNotFound")
        /\ (request.tool = "index_codebase" /\ calls["tool"].pc = "thrown") =>
              (request.error.kind = "McpError"
                  /\ request.error.code = "InternalError")

\* the second half on its own: it holds
C26_ExecutionErrorIsInternalError ==
    (RequestAnswered /\ request.tool = "index_codebase") =>
        /\ calls["tool"].pc = "thrown" =>
              /\ request.error.kind = "McpError"
              /\ request.error.code = "InternalError"
              /\ request.error.cause = calls["tool"].error
        /\ calls["tool"].pc = "returned" => request.error = NoError

(***************************************************************************)
(* One index call with the completion order of its file tasks kept.        *)
(***************************************************************************)
OrderNext ==
    \/ \E name \in RegisteredNames, mf \in MaxFilesChoices,
          bs \in BatchSizeChoices, sl \in SkipLargeChoices :
          IndexCall("api", name, mf, bs, sl)
    \/ \E ok \in BOOLEAN : IndexInitSettle("api", ok)
    \/ IndexProceed("api")
    \/ \E pos \in 1..Len(calls["api"].tasks), ok \in BOOLEAN :
          EmbedSettleInOrder("api", pos, ok)
    \/ BatchJoin("api")

OrderSpec == Init /\ [][OrderNext]_vars

\* the entries of one call are ordered by the discovery position of their
\* file and, within a file, by their first line
InDiscoveryAndChunkOrder(p, chunks) ==
    \A i \in 1..Len(chunks), j \in 1..Len(chunks) :
        i < j =>
            \/ FilePosition(p, chunks[i].filePath)
                  < FilePosition(p, chunks[j].filePath)
            \/ /\ chunks[i].filePath = chunks[j].filePath
               /\ chunks[i].startLine < chunks[j].startLine

IndexOf(seq, x) == CHOOSE k \in 1..Len(seq) : seq[k] = x

(***************************************************************************)
(* C27: the entries an index call has gathered, and the entries it has     *)
(* stored when it returns, are in the discovery order of their files and,  *)
(* within one file, in ascending order of their first line, in whatever    *)
(* order the file tasks of a batch completed.                              *)
(***************************************************************************)
C27_EntriesInDiscoveryAndChunkOrder ==
    /\ InDiscoveryAndChunkOrder("api", calls["api"].allChunks)
    /\ Returned("api") =>
          /\ indexedChunks[calls["api"].name] = calls["api"].allChunks
          /\ InDiscoveryAndChunkOrder("api", indexedChunks[calls["api"].name])

\* the task of f2 completed before the task of f1, which was discovered
\* first, and the stored entries are those of f1, more than one, followed
\* by those of f2
C27_Witness ==
    /\ Returned("api")
    /\ { "f1", "f2" } \subseteq SeqToSet(settleOrder)
    /\ IndexOf(settleOrder, "f2") < IndexOf(settleOrder, "f1")
    /\ LET stored == indexedChunks[calls["api"].name]
       IN  /\ Len(stored) >= 3
           /\ stored[1].filePath = "f1" /\ stored[2].filePath = "f1"
           /\ stored[Len(stored)].filePath = "f2"

(***************************************************************************)
(* The registry of codebases changed while indexing, clearing and          *)
(* searching go on.                                                        *)
(***************************************************************************)
\* CodebaseManager.addCodebase(name, path) with the path of a directory
AddCodebase(name) ==
    /\ ~Hung
    /\ codebases' = codebases \cup { name }
    /\ UNCHANGED << ckVars, fnVars, chunkSize, chunkOverlap, initialized,
                    embeddingPipeline, indexKeys, indexedChunks, calls, searches,
                    pipelineStarts >>

\* CodebaseManager.removeCodebase(name): throws for a name that is not
\* registered, else the name leaves the configuration and the map
RemoveCodebase(name) ==
    /\ ~Hung
    /\ name \in codebases
    /\ codebases' = codebases \ { name }
    /\ UNCHANGED << ckVars, fnVars, chunkSize, chunkOverlap, initialized,
                    embeddingPipeline, indexKeys, indexedChunks, calls, searches,
                    pipelineStarts >>

RegistryNext ==
    \/ \E name \in CallNames : AddCodebase(name)
    \/ \E name \in CallNames : RemoveCodebase(name)
    \/ \E name \in CallNames : IndexCall("api", name, << >>, << >>, << >>)
    \/ \E ok \in BOOLEAN : IndexInitSettle("api", ok)
    \/ IndexProceed("api")
    \/ \E pos \in 1..Len(calls["api"].tasks), ok \in BOOLEAN :
          EmbedSettle("api", pos, ok)
    \/ BatchJoin("api")
    \/ \E arg \in ClearChoices : ClearIndex(arg)
    \/ \E q \in Queries : SearchCall("s1", q, << >>, 10)
    \/ \E ok \in BOOLEAN : SearchInitSettle("s1", ok)
    \/ SearchEmbed("s1")
    \/ \E ok \in BOOLEAN : SearchSettle("s1", ok)

RegistrySpec == Init /\ [][RegistryNext]_vars

\* C28 as stated: every collection name in the index is a registered
\* codebase.
C28_IndexedNamesAreRegistered == SeqToSet(GetIndexedCodebases) \subseteq codebases

\* its consequence for the search: a search over all indexed collections
\* returns entries of codebases registered when it returns only
C28_SearchReturnsRegisteredOnly ==
    [][ \A s \in SearchCallers :
          (searches[s].pc # "returned" /\ searches'[s].pc = "returned") =>
              \A i \in 1..Len(searches'[s].result) :
                  searches'[s].result[i].chunk.codebase \in codebases'
      ]_vars

\* C29 as stated, for the batch loop: every iteration of the loop of an
\* index call works on at least one file and is not a loop that spins, so
\* that i advances and the call reaches its return.
C29_BatchLoopMakesProgress ==
    \A p \in IndexCallers :
        calls[p].pc = "batch" =>
            /\ BatchPositions(calls[p]) # << >>
            /\ calls[p].stuck =>
                  \E k \in TaskPositions(p) : calls[p].tasks[k].st = "running"

\* with a batch size of at least 1 it does: the loop is never entered with
\* an empty batch
C29_PositiveBatchSizeMakesProgress ==
    \A p \in IndexCallers :
        (calls[p].pc = "batch" /\ calls[p].batchSize >= 1) =>
            /\ BatchPositions(calls[p]) # << >>
            /\ calls[p].stuck =>
                  \E k \in TaskPositions(p) : calls[p].tasks[k].st = "running"

(***************************************************************************)
(* CodebaseManager.resolveFilePath followed on its own.  A path is the     *)
(* sequence of its characters; normalize, join and resolve are node's      *)
(* path functions for POSIX.                                               *)
(***************************************************************************)
MaxPathLen == 5

PathChars == { "/", ".", "a" }

FilePaths == UNION { [1..n -> PathChars] : n \in 0..MaxPathLen }

\* this.codebases.get(codebaseName): the directory a name is registered with
CodebasePathOf(name) ==
    IF name = "a" THEN << "/", "a" >>
    ELSE IF name = "b" THEN << "/", "a", "/", "a", "/" >>
    ELSE << >>

ProcessCwd == << "/" >>

DotDot == << ".", "." >>

\* path.split('/') as node's normalizeString walks it
RECURSIVE SegmentsFrom(_, _, _)
SegmentsFrom(path, k, cur) ==
    IF k > Len(path) THEN << cur >>
    ELSE IF path[k] = "/" THEN << cur >> \o SegmentsFrom(path, k + 1, << >>)
    ELSE SegmentsFrom(path, k + 1, Append(cur, path[k]))

PathSegments(path) == SegmentsFrom(path, 1, << >>)

\* normalizeString: empty and '.' segments are dropped, '..' removes the
\* segment before it unless there is none or it is '..' itself; it is then
\* kept when allowAboveRoot and dropped otherwise
RECURSIVE NormalizeSegments(_, _, _, _)
NormalizeSegments(segs, k, res, allowAboveRoot) ==
    IF k > Len(segs) THEN res
    ELSE IF segs[k] = << >> \/ segs[k] = << "." >>
    THEN NormalizeSegments(segs, k + 1, res, allowAboveRoot)
    ELSE IF segs[k] = DotDot
    THEN IF res # << >> /\ res[Len(res)] # DotDot
         THEN NormalizeSegments(segs, k + 1, SubSeq(res, 1, Len(res) - 1),
                                allowAboveRoot)
         ELSE IF allowAboveRoot
         THEN NormalizeSegments(segs, k + 1, Append(res, DotDot), allowAboveRoot)
         ELSE NormalizeSegments(segs, k + 1, res, allowAboveRoot)
    ELSE NormalizeSegments(segs, k + 1, Append(res, segs[k]), allowAboveRoot)

RECURSIVE JoinSegments(_)
JoinSegments(segs) ==
    IF segs = << >> THEN << >>
    ELSE IF Len(segs) = 1 THEN segs[1]
    ELSE segs[1] \o << "/" >> \o JoinSegments(Tail(segs))

NormalizeString(path, allowAboveRoot) ==
    JoinSegments(NormalizeSegments(PathSegments(path), 1, << >>, allowAboveRoot))

IsAbsolute(path) == path # << >> /\ path[1] = "/"

\* path.normalize
Normalize(path) ==
    IF path = << >> THEN << "." >>
    ELSE LET trailing == path[Len(path)] = "/"
             body == NormalizeString(path, ~IsAbsolute(path))
         IN  IF body = << >>
             THEN IF IsAbsolute(path) THEN << "/" >>
                  ELSE IF trailing THEN << ".", "/" >> ELSE << "." >>
             ELSE (IF IsAbsolute(path) THEN << "/" >> ELSE << >>)
                      \o body \o (IF trailing THEN << "/" >> ELSE << >>)

\* path.join(a, b)
PathJoin(a, b) ==
    IF a = << >> /\ b = << >> THEN << "." >>
    ELSE IF a = << >> THEN Normalize(b)
    ELSE IF b = << >> THEN Normalize(a)
    ELSE Normalize(a \o << "/" >> \o b)

\* path.resolve(path)
Resolve(path) ==
    IF IsAbsolute(path) THEN << "/" >> \o NormalizeString(path, FALSE)
    ELSE << "/" >> \o NormalizeString(ProcessCwd \o << "/" >> \o path, FALSE)

\* String.prototype.startsWith
StartsWith(str, prefix) ==
    Len(prefix) <= Len(str) /\ SubSeq(str, 1, Len(prefix)) = prefix

\* (a variant of WithinCodebase that compares with the codebase path
\* without the separator after it)
WithinCodebaseByPrefix(resolvedPath, resolvedCodebasePath) ==
    StartsWith(resolvedPath, resolvedCodebasePath)

\* the test of resolveFilePath, negated
WithinCodebase(resolvedPath, resolvedCodebasePath) ==
    \/ StartsWith(resolvedPath, resolvedCodebasePath \o << "/" >>)
    \/ resolvedPath = resolvedCodebasePath

\* resolveFilePath: << >> is null, << path >> a returned path
ResolveFilePath(codebaseName, filePath, exists) ==
    LET codebasePath == IF HasCodebase(codebaseName)
                        THEN CodebasePathOf(codebaseName) ELSE << >>
        normalizedFilePath == Normalize(filePath)
        fullPath == PathJoin(codebasePath, normalizedFilePath)
        resolvedPath == Resolve(fullPath)
        resolvedCodebasePath == Resolve(codebasePath)
    IN  IF codebasePath = << >> THEN << >>
        ELSE IF ~WithinCodebase(resolvedPath, resolvedCodebasePath) THEN << >>
        ELSE IF ~exists THEN << >>
        ELSE << resolvedPath >>

\* a call of resolveFilePath; exists is what existsSync answers
ResolveCall(codebaseName, filePath, exists) ==
    /\ resolved.pc = "idle"
    /\ resolved' = [ pc |-> "returned", codebaseName |-> codebaseName,
                     filePath |-> filePath, exists |-> exists,
                     result |-> ResolveFilePath(codebaseName, filePath, exists) ]
    /\ UNCHANGED << ckVars, plVars, request, cosine, settleOrder >>

ResolveNext ==
    \E name \in CallNames, filePath \in FilePaths, exists \in BOOLEAN :
        ResolveCall(name, filePath, exists)

ResolveSpec == Init /\ [][ResolveNext]_vars

\* the directories from the root of the file system down to a path, '.'
\* and '..' followed
Directories(path) == NormalizeSegments(PathSegments(path), 1, << >>, FALSE)

IsPrefix(s, t) == Len(s) <= Len(t) /\ SubSeq(t, 1, Len(s)) = s

\* filePath taken relative to the directory of the codebase
Target(codebaseName, filePath) ==
    Directories(CodebasePathOf(codebaseName) \o << "/" >> \o filePath)

InsideRoot(codebaseName, dirs) ==
    IsPrefix(Directories(CodebasePathOf(codebaseName)), dirs)

\* what the code resolves filePath to
ResolvedTarget(codebaseName, filePath) ==
    Directories(Resolve(PathJoin(CodebasePathOf(codebaseName),
                                 Normalize(filePath))))

(***************************************************************************)
(* C30: resolveFilePath returns a path only for a registered codebase and  *)
(* only if that path, its '.' and '..' segments followed, is the directory *)
(* of the codebase or lies below it; for every filePath that resolves to a *)
(* place outside that directory, a sibling whose name begins with the      *)
(* directory's name included, it returns null.  For a relative filePath    *)
(* the place it resolves to is the place it names from that directory.     *)
(***************************************************************************)
C30_ResolvedPathStaysInsideRoot ==
    resolved.pc = "returned" =>
        LET name == resolved.codebaseName
            filePath == resolved.filePath
        IN  /\ resolved.result # << >> =>
                  /\ HasCodebase(name)
                  /\ resolved.exists
                  /\ InsideRoot(name, Directories(resolved.result[1]))
                  /\ Directories(resolved.result[1])
                        = ResolvedTarget(name, filePath)
                  /\ \A k \in 1..Len(PathSegments(resolved.result[1])) :
                        PathSegments(resolved.result[1])[k]
                            \notin { << "." >>, DotDot }
            /\ (HasCodebase(name)
                    /\ ~InsideRoot(name, ResolvedTarget(name, filePath))) =>
                  resolved.result = << >>
            /\ (HasCodebase(name) /\ ~IsAbsolute(filePath)) =>
                  /\ ResolvedTarget(name, filePath) = Target(name, filePath)
                  /\ ~InsideRoot(name, Target(name, filePath)) =>
                        resolved.result = << >>

\* a filePath that begins with '/' loses the '..' segments that would leave
\* the root of the file system before it is joined to the directory of the
\* codebase: it is resolved below that directory
C30_AbsoluteFilePathIsTakenBelowRoot ==
    (resolved.pc = "returned" /\ HasCodebase(resolved.codebaseName)
        /\ IsAbsolute(resolved.filePath)) =>
        /\ ResolvedTarget(resolved.codebaseName, resolved.filePath)
              = Directories(CodebasePathOf(resolved.codebaseName))
                    \o Directories(resolved.filePath)
        /\ resolved.exists => resolved.result # << >>

\* "../aa" from the codebase at /a names the sibling /aa, which exists:
\* null is returned
C30_Witness ==
    /\ resolved.pc = "returned"
    /\ resolved.codebaseName = "a"
    /\ resolved.filePath = << ".", ".", "/", "a", "a" >>
    /\ resolved.exists
    /\ Target("a", resolved.filePath) = << << "a", "a" >> >>
    /\ resolved.result = << >>

\* "a/../a" from the codebase at /a is returned as /a/a
C30_ReturnsInside ==
    /\ resolved.pc = "returned"
    /\ resolved.codebaseName = "a"
    /\ resolved.filePath = << "a", "/", ".", "." >>
    /\ resolved.exists
    /\ resolved.result = << << "/", "a" >> >>

====
